---- MODULE Spec2Model ----
(***************************************************************************)
(* Habit tracker: the period / streak engine of habit_tracker/habit.py and *)
(* the HabitManager operations of habit_tracker/habitmanager.py that       *)
(* mutate a habit's completion ledger.                                     *)
(*                                                                         *)
(* A datetime is modelled as the integer                                   *)
(*     toordinal(date) * SlotsPerDay + slot                                *)
(* where slot is the time of day in units of 24/SlotsPerDay hours.  The    *)
(* order of these integers is the order of naive datetimes, and the        *)
(* calendar fields (year, month, day, weekday) are computed from the       *)
(* ordinal with the proleptic Gregorian rules datetime uses.               *)
(***************************************************************************)
EXTENDS Integers, Sequences, FiniteSets, TLC

VARIABLES habits, storage

vars == <<habits, storage>>

-----------------------------------------------------------------------------
(* Bounds of the model.                                                    *)

\* longest completion_history explored
MaxHist == 3

\* time-of-day resolution: slots per calendar day
SlotsPerDay == 2

\* length in days of the stretch of calendar explored day by day
CalendarDays == 70

-----------------------------------------------------------------------------
(* The calendar of datetime (proleptic Gregorian).                         *)

DaysBeforeMonthTable == <<0, 31, 59, 90, 120, 151, 181, 212, 243, 273, 304, 334>>

DaysInMonthTable == <<31, 28, 31, 30, 31, 30, 31, 31, 30, 31, 30, 31>>

is_leap(y) == (y % 4 = 0) /\ ((y % 100 # 0) \/ (y % 400 = 0))

days_before_year(y) ==
    (y - 1) * 365 + ((y - 1) \div 4) - ((y - 1) \div 100) + ((y - 1) \div 400)

days_before_month(y, m) ==
    DaysBeforeMonthTable[m] + (IF m > 2 /\ is_leap(y) THEN 1 ELSE 0)

\* date(y, m, d).toordinal()
ymd2ord(y, m, d) == days_before_year(y) + days_before_month(y, m) + d

\* date.fromordinal(n) as <<year, month, day>>
ord2ymd(ord) ==
    LET n0   == ord - 1
        n400 == n0 \div 146097
        r400 == n0 % 146097
        n100 == r400 \div 36524
        r100 == r400 % 36524
        n4   == r100 \div 1461
        r4   == r100 % 1461
        n1   == r4 \div 365
        n    == r4 % 365
        year == n400 * 400 + 1 + n100 * 100 + n4 * 4 + n1
    IN  IF n1 = 4 \/ n100 = 4
        THEN <<year - 1, 12, 31>>
        ELSE LET leapyear == (n1 = 3) /\ ((n4 # 24) \/ (n100 = 3))
                 m0   == (n + 50) \div 32
                 pre0 == DaysBeforeMonthTable[m0]
                           + (IF m0 > 2 /\ leapyear THEN 1 ELSE 0)
                 month == IF pre0 > n THEN m0 - 1 ELSE m0
                 pre  == IF pre0 > n
                         THEN pre0 - (DaysInMonthTable[month]
                                + (IF month = 2 /\ leapyear THEN 1 ELSE 0))
                         ELSE pre0
             IN  <<year, month, n - pre + 1>>

\* datetime(y, m, d) at time-of-day slot s
datetime(y, m, d, s) == ymd2ord(y, m, d) * SlotsPerDay + s

toordinal(dt) == dt \div SlotsPerDay

slot(dt) == dt % SlotsPerDay

year(dt) == ord2ymd(toordinal(dt))[1]

month(dt) == ord2ymd(toordinal(dt))[2]

day(dt) == ord2ymd(toordinal(dt))[3]

\* datetime.date(): the calendar day, compared by equality only
date(dt) == toordinal(dt)

\* datetime.weekday(): Monday is 0
weekday(dt) == (toordinal(dt) + 6) % 7

\* dt - timedelta(days = n)
minus_days(dt, n) == dt - n * SlotsPerDay

-----------------------------------------------------------------------------
(* Inputs explored.                                                        *)

\* timestamps handed to the operations and read from the clock: the
\* 2023/2024 year change (2023-12-25 and 2024-01-01 are Mondays), two times
\* of one day, Feb 29 / Mar 1 of a leap year, and a third year
Times ==
    { datetime(2023, 12, 25, 0), datetime(2023, 12, 31, 0),
      datetime(2024, 1, 1, 0),   datetime(2024, 1, 1, 1),
      datetime(2024, 1, 2, 0),   datetime(2024, 1, 8, 0),
      datetime(2024, 2, 29, 0),  datetime(2024, 3, 1, 0),
      datetime(2025, 1, 1, 0) }

\* every time of every day from Monday 2019-12-23 on: a week that spans
\* the change of year, the first month and day of a year, and Feb 29 /
\* Mar 1 of a leap year
CalendarTimes ==
    { minus_days(datetime(2019, 12, 23, s), 0 - d) :
        d \in 0..(CalendarDays - 1), s \in 0..(SlotsPerDay - 1) }

\* creation dates of the habit under test
CreationTimes == { datetime(2023, 12, 31, 0), datetime(2024, 1, 1, 0) }

Names == {"Exercise", "NonExistent"}

\* descriptions given to update_habit
Descriptions == {"Workout"}

\* names, descriptions and clock readings of the calls of a manager that
\* starts without a file: two days of one week, so that two daily
\* completions share a weekly period
MgrNames == {"Exercise", "Read"}

CreateDescriptions == {"Workout", "Another workout"}

MgrTimes == { datetime(2024, 1, 1, 0), datetime(2024, 1, 2, 0) }

-----------------------------------------------------------------------------
(* habit.py: Periodicity                                                   *)

Periodicity == {"DAILY", "WEEKLY", "MONTHLY", "YEARLY"}

\* Periodicity.<member>.value
PeriodicityValue(p) ==
    CASE p = "DAILY"   -> "daily"
      [] p = "WEEKLY"  -> "weekly"
      [] p = "MONTHLY" -> "monthly"
      [] p = "YEARLY"  -> "yearly"

\* Periodicity(value) raises ValueError for any other string
PeriodicityValues == {PeriodicityValue(p) : p \in Periodicity}

\* Periodicity(value)
PeriodicityOf(v) == CHOOSE p \in Periodicity : PeriodicityValue(p) = v

-----------------------------------------------------------------------------
(* habit.py: Habit                                                         *)

\* Habit.__init__ with an explicit creation_date
Habit(name, description, periodicity, creation_date) ==
    [ name               |-> name,
      description        |-> description,
      periodicity        |-> periodicity,
      creation_date      |-> creation_date,
      completion_history |-> << >> ]

\* max(list) of a non-empty list
max(seq) == CHOOSE x \in {seq[i] : i \in 1..Len(seq)} :
                \A i \in 1..Len(seq) : seq[i] <= x

\* list.sort(): ascending
RECURSIVE InsertSorted(_, _)
InsertSorted(seq, x) ==
    IF seq = << >> THEN <<x>>
    ELSE IF x < Head(seq) THEN <<x>> \o seq
    ELSE <<Head(seq)>> \o InsertSorted(Tail(seq), x)

RECURSIVE sorted(_)
sorted(seq) ==
    IF seq = << >> THEN << >>
    ELSE InsertSorted(sorted(SubSeq(seq, 1, Len(seq) - 1)), seq[Len(seq)])

\* sorted(..., reverse=True)
RECURSIVE reversed(_)
reversed(seq) ==
    IF seq = << >> THEN << >> ELSE reversed(Tail(seq)) \o <<Head(seq)>>

sorted_reverse(seq) == reversed(sorted(seq))

\* a remove that drops every occurrence of x
remove_All(seq, x) == SelectSeq(seq, LAMBDA y : y # x)

\* list.remove(x): drops the first occurrence of x (x is in the list)
RECURSIVE remove(_, _)
remove(seq, x) ==
    IF seq = << >> THEN << >>
    ELSE IF Head(seq) = x THEN Tail(seq)
    ELSE <<Head(seq)>> \o remove(Tail(seq), x)

\* x in list
contains(seq, x) == \E i \in 1..Len(seq) : seq[i] = x

\* _get_period_start whose week starts on the Sunday before the day
_get_period_start_SundayBefore(h, date_time) ==
    CASE h.periodicity = "DAILY" ->
            LET ymd == ord2ymd(toordinal(date_time))
            IN  datetime(ymd[1], ymd[2], ymd[3], 0)
      [] h.periodicity = "WEEKLY" ->
            LET sunday == minus_days(date_time, weekday(date_time) + 1)
                ymd    == ord2ymd(toordinal(sunday))
            IN  datetime(ymd[1], ymd[2], ymd[3], 0)
      [] h.periodicity = "MONTHLY" ->
            LET ymd == ord2ymd(toordinal(date_time))
            IN  datetime(ymd[1], ymd[2], 1, 0)
      [] h.periodicity = "YEARLY" ->
            datetime(year(date_time), 1, 1, 0)
      [] OTHER -> date_time

\* _get_period_start whose yearly case replaces the month and keeps the day
_get_period_start_KeepDay(h, date_time) ==
    CASE h.periodicity = "DAILY" ->
            LET ymd == ord2ymd(toordinal(date_time))
            IN  datetime(ymd[1], ymd[2], ymd[3], 0)
      [] h.periodicity = "WEEKLY" ->
            LET monday == minus_days(date_time, weekday(date_time))
                ymd    == ord2ymd(toordinal(monday))
            IN  datetime(ymd[1], ymd[2], ymd[3], 0)
      [] h.periodicity = "MONTHLY" ->
            LET ymd == ord2ymd(toordinal(date_time))
            IN  datetime(ymd[1], ymd[2], 1, 0)
      [] h.periodicity = "YEARLY" ->
            datetime(year(date_time), 1, day(date_time), 0)
      [] OTHER -> date_time

\* Habit._get_period_start
_get_period_start(h, date_time) ==
    CASE h.periodicity = "DAILY" ->
            LET ymd == ord2ymd(toordinal(date_time))
            IN  datetime(ymd[1], ymd[2], ymd[3], 0)
      [] h.periodicity = "WEEKLY" ->
            LET monday == minus_days(date_time, weekday(date_time))
                ymd    == ord2ymd(toordinal(monday))
            IN  datetime(ymd[1], ymd[2], ymd[3], 0)
      [] h.periodicity = "MONTHLY" ->
            LET ymd == ord2ymd(toordinal(date_time))
            IN  datetime(ymd[1], ymd[2], 1, 0)
      [] h.periodicity = "YEARLY" ->
            datetime(year(date_time), 1, 1, 0)
      [] OTHER -> date_time

\* _get_previous_period_start that steps from January to December of the
\* same year
_get_previous_period_start_SameYear(h, period_start) ==
    CASE h.periodicity = "DAILY" -> minus_days(period_start, 1)
      [] h.periodicity = "WEEKLY" -> minus_days(period_start, 7)
      [] h.periodicity = "MONTHLY" ->
            LET ymd == ord2ymd(toordinal(period_start))
            IN  IF ymd[2] = 1
                THEN datetime(ymd[1], 12, 1, 0)
                ELSE datetime(ymd[1], ymd[2] - 1, 1, 0)
      [] h.periodicity = "YEARLY" ->
            datetime(year(period_start) - 1, 1, 1, 0)
      [] OTHER -> period_start

\* Habit._get_previous_period_start
_get_previous_period_start(h, period_start) ==
    CASE h.periodicity = "DAILY" -> minus_days(period_start, 1)
      [] h.periodicity = "WEEKLY" -> minus_days(period_start, 7)
      [] h.periodicity = "MONTHLY" ->
            LET ymd == ord2ymd(toordinal(period_start))
            IN  IF ymd[2] = 1
                THEN datetime(ymd[1] - 1, 12, 1, 0)
                ELSE datetime(ymd[1], ymd[2] - 1, 1, 0)
      [] h.periodicity = "YEARLY" ->
            datetime(year(period_start) - 1, 1, 1, 0)
      [] OTHER -> period_start

\* _is_already_completed_in_period whose weeks start on Sunday
_is_already_completed_in_period_SundayWeek(h, check_time) ==
    IF h.completion_history = << >> THEN FALSE
    ELSE LET last_completion == max(h.completion_history)
         IN  CASE h.periodicity = "DAILY" ->
                    date(last_completion) = date(check_time)
               [] h.periodicity = "WEEKLY" ->
                    LET last_week_start ==
                            minus_days(last_completion,
                                       (weekday(last_completion) + 1) % 7)
                        check_week_start ==
                            minus_days(check_time, (weekday(check_time) + 1) % 7)
                    IN  date(last_week_start) = date(check_week_start)
               [] h.periodicity = "MONTHLY" ->
                    LET last_ymd  == ord2ymd(toordinal(last_completion))
                        check_ymd == ord2ymd(toordinal(check_time))
                    IN  /\ last_ymd[1] = check_ymd[1]
                        /\ last_ymd[2] = check_ymd[2]
               [] h.periodicity = "YEARLY" ->
                    year(last_completion) = year(check_time)
               [] OTHER -> FALSE

\* Habit._is_already_completed_in_period
_is_already_completed_in_period(h, check_time) ==
    IF h.completion_history = << >> THEN FALSE
    ELSE LET last_completion == max(h.completion_history)
         IN  CASE h.periodicity = "DAILY" ->
                    date(last_completion) = date(check_time)
               [] h.periodicity = "WEEKLY" ->
                    LET last_week_start ==
                            minus_days(last_completion, weekday(last_completion))
                        check_week_start ==
                            minus_days(check_time, weekday(check_time))
                    IN  date(last_week_start) = date(check_week_start)
               [] h.periodicity = "MONTHLY" ->
                    LET last_ymd  == ord2ymd(toordinal(last_completion))
                        check_ymd == ord2ymd(toordinal(check_time))
                    IN  /\ last_ymd[1] = check_ymd[1]
                        /\ last_ymd[2] = check_ymd[2]
               [] h.periodicity = "YEARLY" ->
                    year(last_completion) = year(check_time)
               [] OTHER -> FALSE

\* check_off that appends before it checks for a duplicate
check_off_AppendFirst(h, completion_time) ==
    [ raised |-> _is_already_completed_in_period(h, completion_time),
      habit  |-> [h EXCEPT !.completion_history =
                     sorted(Append(@, completion_time))] ]

\* check_off without the sort after the append
check_off_NoSort(h, completion_time) ==
    IF ~ _is_already_completed_in_period(h, completion_time)
    THEN [ raised |-> FALSE,
           habit  |-> [h EXCEPT !.completion_history =
                          Append(@, completion_time)] ]
    ELSE [ raised |-> TRUE, habit |-> h ]

\* Habit.check_off: the habit afterwards, and whether ValueError was raised
check_off(h, completion_time) ==
    IF ~ _is_already_completed_in_period(h, completion_time)
    THEN [ raised |-> FALSE,
           habit  |-> [h EXCEPT !.completion_history =
                          sorted(Append(@, completion_time))] ]
    ELSE [ raised |-> TRUE, habit |-> h ]

-----------------------------------------------------------------------------
(* habit.py: streaks and status.  datetime.now() is the parameter now.     *)

\* the for loop of calculate_current_streak over sorted_completions
RECURSIVE current_streak_loop(_, _, _, _)
current_streak_loop(h, sorted_completions, current_period_start, streak) ==
    IF sorted_completions = << >> THEN streak
    ELSE LET completion_period_start ==
                 _get_period_start(h, Head(sorted_completions))
         IN  IF completion_period_start = current_period_start
             THEN current_streak_loop(h, Tail(sorted_completions),
                      _get_previous_period_start(h, current_period_start),
                      streak + 1)
             ELSE IF completion_period_start < current_period_start
             THEN streak
             ELSE current_streak_loop(h, Tail(sorted_completions),
                      current_period_start, streak)

\* the for loop of calculate_current_streak takes neither branch for some
\* completion it examines: the completion's period start is later than
\* current_period_start
RECURSIVE current_streak_skips(_, _, _)
current_streak_skips(h, sorted_completions, current_period_start) ==
    IF sorted_completions = << >> THEN FALSE
    ELSE LET completion_period_start ==
                 _get_period_start(h, Head(sorted_completions))
         IN  IF completion_period_start = current_period_start
             THEN current_streak_skips(h, Tail(sorted_completions),
                      _get_previous_period_start(h, current_period_start))
             ELSE completion_period_start > current_period_start

\* calculate_current_streak walking the ledger oldest first
calculate_current_streak_Ascending(h, now) ==
    IF h.completion_history = << >> THEN 0
    ELSE current_streak_loop(h, sorted(h.completion_history),
                             _get_period_start(h, now), 0)

\* calculate_current_streak starting the walk at the period of the most
\* recent completion instead of the period of now
calculate_current_streak_FromLast(h, now) ==
    IF h.completion_history = << >> THEN 0
    ELSE current_streak_loop(h, sorted_reverse(h.completion_history),
                             _get_period_start(h, max(h.completion_history)), 0)

\* Habit.calculate_current_streak
calculate_current_streak(h, now) ==
    IF h.completion_history = << >> THEN 0
    ELSE current_streak_loop(h, sorted_reverse(h.completion_history),
                             _get_period_start(h, now), 0)

\* sorted(periods, reverse=True) of a set
RECURSIVE sorted_reverse_set(_)
sorted_reverse_set(S) ==
    IF S = {} THEN << >>
    ELSE LET m == CHOOSE x \in S : \A y \in S : y <= x
         IN  <<m>> \o sorted_reverse_set(S \ {m})

Max2(a, b) == IF a >= b THEN a ELSE b

\* the loop of calculate_longest_streak updating max_streak only at a gap
RECURSIVE longest_streak_loop_MaxAtGap(_, _, _, _, _)
longest_streak_loop_MaxAtGap(h, sorted_periods, expected_period, current_streak, max_streak) ==
    IF sorted_periods = << >> THEN max_streak
    ELSE LET period == Head(sorted_periods)
         IN  IF period = expected_period
             THEN longest_streak_loop_MaxAtGap(h, Tail(sorted_periods),
                      _get_previous_period_start(h, expected_period),
                      current_streak + 1, max_streak)
             ELSE IF period < expected_period
             THEN longest_streak_loop_MaxAtGap(h, Tail(sorted_periods),
                      _get_previous_period_start(h, period),
                      1, Max2(max_streak, current_streak))
             ELSE longest_streak_loop_MaxAtGap(h, Tail(sorted_periods),
                      expected_period, current_streak, max_streak)

\* the for loop of calculate_longest_streak over sorted_periods
RECURSIVE longest_streak_loop(_, _, _, _, _)
longest_streak_loop(h, sorted_periods, expected_period, current_streak, max_streak) ==
    IF sorted_periods = << >> THEN max_streak
    ELSE LET period == Head(sorted_periods)
         IN  IF period = expected_period
             THEN longest_streak_loop(h, Tail(sorted_periods),
                      _get_previous_period_start(h, expected_period),
                      current_streak + 1,
                      Max2(max_streak, current_streak + 1))
             ELSE IF period < expected_period
             THEN longest_streak_loop(h, Tail(sorted_periods),
                      _get_previous_period_start(h, period),
                      1, Max2(max_streak, 1))
             ELSE longest_streak_loop(h, Tail(sorted_periods),
                      expected_period, current_streak, max_streak)

\* Habit.calculate_longest_streak
calculate_longest_streak(h, now) ==
    IF h.completion_history = << >> THEN 0
    ELSE LET periods == { _get_period_start(h, h.completion_history[i]) :
                            i \in 1..Len(h.completion_history) }
         IN  longest_streak_loop(h, sorted_reverse_set(periods),
                                 _get_period_start(h, now), 0, 0)

\* _is_more_than_one_period_old with a strict comparison
_is_more_than_one_period_old_Strict(h, creation_date, check_date) ==
    LET creation_period == _get_period_start(h, creation_date)
        check_period    == _get_period_start(h, check_date)
    IN  _get_previous_period_start(h, check_period) > creation_period

\* Habit._is_more_than_one_period_old
_is_more_than_one_period_old(h, creation_date, check_date) ==
    LET creation_period == _get_period_start(h, creation_date)
        check_period    == _get_period_start(h, check_date)
    IN  _get_previous_period_start(h, check_period) >= creation_period

\* is_broken that tolerates a last completion in the previous period
is_broken_Grace(h, check_date) ==
    IF h.completion_history = << >>
    THEN _is_more_than_one_period_old(h, h.creation_date, check_date)
    ELSE LET last_completion      == max(h.completion_history)
             last_period_start    == _get_period_start(h, last_completion)
             current_period_start == _get_period_start(h, check_date)
         IN  last_period_start <
                 _get_previous_period_start(h, current_period_start)

\* is_broken that also counts a completion in the period of check_date as
\* missed
is_broken_Inclusive(h, check_date) ==
    IF h.completion_history = << >>
    THEN _is_more_than_one_period_old(h, h.creation_date, check_date)
    ELSE LET last_completion      == max(h.completion_history)
             last_period_start    == _get_period_start(h, last_completion)
             current_period_start == _get_period_start(h, check_date)
         IN  last_period_start <= current_period_start

\* Habit.is_broken
is_broken(h, check_date) ==
    IF h.completion_history = << >>
    THEN _is_more_than_one_period_old(h, h.creation_date, check_date)
    ELSE LET last_completion      == max(h.completion_history)
             last_period_start    == _get_period_start(h, last_completion)
             current_period_start == _get_period_start(h, check_date)
         IN  last_period_start < current_period_start

-----------------------------------------------------------------------------
(* functional_analytics.py: FunctionalAnalytics.  A float is the ratio     *)
(* num / den of two integers, den > 0.                                     *)

\* look-back windows in days
LookBackDays == {1, 7, 30, 365, 36500}

\* FunctionalAnalytics.get_completion_rate; datetime.now() is the
\* parameter now.  expected is days, days / 7, days / 30 or days / 365, and
\* the rate is len(recent_completions) / expected * 100
get_completion_rate(habit, days, now) ==
    IF habit.completion_history = << >> THEN [num |-> 0, den |-> 1]
    ELSE LET start_date == minus_days(now, days)
             recent_completions ==
                 SelectSeq(habit.completion_history,
                           LAMBDA completion : completion >= start_date)
             per == CASE habit.periodicity = "DAILY"   -> 1
                      [] habit.periodicity = "WEEKLY"  -> 7
                      [] habit.periodicity = "MONTHLY" -> 30
                      [] OTHER                         -> 365
         IN  IF days = 0 THEN [num |-> 0, den |-> 1]
             ELSE [num |-> Len(recent_completions) * per * 100, den |-> days]

-----------------------------------------------------------------------------
(* habit.py: serialization.  An ISO string 'YYYY-MM-DDTHH:00:00' is the    *)
(* tuple <<YYYY, MM, DD, HH>> of the numbers it spells.                    *)

\* isoformat of the date alone: the time of day is lost
isoformat_DateOnly(dt) ==
    LET ymd == ord2ymd(toordinal(dt))
    IN  <<ymd[1], ymd[2], ymd[3], 0>>

\* datetime.isoformat()
isoformat(dt) ==
    LET ymd == ord2ymd(toordinal(dt))
    IN  <<ymd[1], ymd[2], ymd[3], (slot(dt) * 24) \div SlotsPerDay>>

\* datetime.fromisoformat() raises ValueError on a string that spells no
\* datetime
fromisoformat_raises(str) ==
    ~ ( /\ Len(str) = 4
        /\ str[1] \in 1..9999
        /\ str[2] \in 1..12
        /\ str[3] \in 1..(DaysInMonthTable[str[2]]
                           + (IF str[2] = 2 /\ is_leap(str[1]) THEN 1 ELSE 0))
        /\ str[4] \in 0..23 )

\* datetime.fromisoformat()
fromisoformat(str) ==
    datetime(str[1], str[2], str[3], (str[4] * SlotsPerDay + 23) \div 24)

\* Habit.to_dict
to_dict(h) ==
    [ name               |-> h.name,
      description        |-> h.description,
      periodicity        |-> PeriodicityValue(h.periodicity),
      creation_date      |-> isoformat(h.creation_date),
      completion_history |-> [i \in 1..Len(h.completion_history) |->
                                  isoformat(h.completion_history[i])] ]

HabitKeys ==
    {"name", "description", "periodicity", "creation_date", "completion_history"}

\* Habit.from_dict raises KeyError on a missing key and ValueError on an
\* unknown periodicity tag or an unparseable timestamp
from_dict_raises(data) ==
    \/ ~ (HabitKeys \subseteq DOMAIN data)
    \/ data.periodicity \notin PeriodicityValues
    \/ fromisoformat_raises(data.creation_date)
    \/ \E i \in 1..Len(data.completion_history) :
           fromisoformat_raises(data.completion_history[i])

\* Habit.from_dict
from_dict(data) ==
    [ Habit(data.name, data.description, PeriodicityOf(data.periodicity),
            fromisoformat(data.creation_date))
      EXCEPT !.completion_history =
          [i \in 1..Len(data.completion_history) |->
               fromisoformat(data.completion_history[i])] ]

-----------------------------------------------------------------------------
(* storage_handler.py: JSONStorageHandler.  storage is the 'habits' object *)
(* of the JSON file.                                                       *)

\* JSONStorageHandler.save_habits: the file content written
save_habits(hs) == [name \in DOMAIN hs |-> to_dict(hs[name])]

\* JSONStorageHandler.load_habits: a record that fails to load is skipped
load_habits(file) ==
    [name \in {n \in DOMAIN file : ~ from_dict_raises(file[n])} |->
         from_dict(file[name])]

-----------------------------------------------------------------------------
(* storage_handler.py: SQLiteStorageHandler.  The database is, per habit   *)
(* name, the row of table habits together with the completion_time values  *)
(* of the habit's rows of table completions in the order of the query.     *)

\* SQLiteStorageHandler.save_habits: the rows inserted; the UNIQUE
\* constraint on (habit_name, completion_time) fails the transaction
sqlite_save_habits(hs) ==
    [ raised |-> \E n \in DOMAIN hs :
                    \E i, j \in 1..Len(hs[n].completion_history) :
                        /\ i # j
                        /\ hs[n].completion_history[i] =
                              hs[n].completion_history[j],
      db     |-> [n \in DOMAIN hs |->
                    [ name          |-> hs[n].name,
                      description   |-> hs[n].description,
                      periodicity   |-> PeriodicityValue(hs[n].periodicity),
                      creation_date |-> isoformat(hs[n].creation_date),
                      completions   |->
                          [i \in 1..Len(hs[n].completion_history) |->
                               isoformat(hs[n].completion_history[i])] ]] ]

\* the body of the for loop of SQLiteStorageHandler.load_habits raises
sqlite_row_raises(row) ==
    \/ row.periodicity \notin PeriodicityValues
    \/ fromisoformat_raises(row.creation_date)
    \/ \E i \in 1..Len(row.completions) :
           fromisoformat_raises(row.completions[i])

\* the habit the for loop builds from a row and its completions
sqlite_row_habit(row) ==
    [ Habit(row.name, row.description, PeriodicityOf(row.periodicity),
            fromisoformat(row.creation_date))
      EXCEPT !.completion_history =
          [i \in 1..Len(row.completions) |-> fromisoformat(row.completions[i])] ]

\* SQLiteStorageHandler.load_habits: one try block around the whole loop, so
\* an exception in any row ends the load with StorageError
sqlite_load_habits(db) ==
    IF \E n \in DOMAIN db : sqlite_row_raises(db[n])
    THEN [ raised |-> TRUE, habits |-> [n \in {} |-> n] ]
    ELSE [ raised |-> FALSE,
           habits |-> [n \in DOMAIN db |-> sqlite_row_habit(db[n])] ]

\* load_habits of the handler of a store [type, data]: the collection
\* returned, or StorageError raised
handler_load_habits(store) ==
    IF store.type = "json"
    THEN [ raised |-> FALSE, habits |-> load_habits(store.data) ]
    ELSE sqlite_load_habits(store.data)

-----------------------------------------------------------------------------
(* habitmanager.py: HabitManager.  habits is self.habits, storage the file *)
(* behind self.storage.  Every method is an operator from the manager's    *)
(* state (hs, file) and the arguments to the state afterwards and the      *)
(* outcome ret: the value returned, or the name of the exception raised.   *)

Result(hs, file, ret) == [habits |-> hs, storage |-> file, ret |-> ret]

\* keyword arguments of update_habit
Absent == "<absent>"

Kwargs(description, periodicity) ==
    [k \in (IF description = Absent THEN {} ELSE {"description"})
           \cup (IF periodicity = Absent THEN {} ELSE {"periodicity"}) |->
        IF k = "description" THEN description ELSE periodicity]

\* periodicity arguments: enum members, and the strings of a valid and of an
\* unknown tag
PeriodicityArgs == Periodicity \cup {"weekly", "hourly"}

KwargsSet ==
    { Kwargs(d, p) : d \in Descriptions \cup {Absent},
                     p \in PeriodicityArgs \cup {Absent} }

\* outcomes of the write of save_habits: TRUE written, FALSE StorageError.
\* The file system explored here accepts every write.
SaveOutcomes == {TRUE}

\* save_data that returns without writing the file
save_data_Stale(hs, file, saveOk, ret) == Result(hs, file, ret)

\* HabitManager.save_data of the collection hs, then the normal return ret
save_data(hs, file, saveOk, ret) ==
    IF saveOk THEN Result(hs, save_habits(hs), ret)
    ELSE Result(hs, file, "StorageError")

\* create_habit without the check for an existing name
create_habit_Overwrite(hs, file, name, description, periodicity, now, saveOk) ==
    save_data([n \in DOMAIN hs \cup {name} |->
                  IF n = name THEN Habit(name, description, periodicity, now)
                  ELSE hs[n]],
              file, saveOk, "Habit")

\* HabitManager.create_habit; the new habit's creation_date is the clock
\* reading now
create_habit(hs, file, name, description, periodicity, now, saveOk) ==
    IF name \in DOMAIN hs
    THEN Result(hs, file, "ValueError")
    ELSE save_data([n \in DOMAIN hs \cup {name} |->
                       IF n = name
                       THEN Habit(name, description, periodicity, now)
                       ELSE hs[n]],
                   file, saveOk, "Habit")

\* HabitManager.delete_habit
delete_habit(hs, file, name, saveOk) ==
    IF name \in DOMAIN hs
    THEN save_data([n \in DOMAIN hs \ {name} |-> hs[n]], file, saveOk, "True")
    ELSE Result(hs, file, "False")

\* HabitManager.complete_habit
complete_habit(hs, file, name, completion_time, saveOk) ==
    IF name \in DOMAIN hs
    THEN LET r == check_off(hs[name], completion_time)
         IN  IF r.raised
             THEN Result(hs, file, "ValueError")
             ELSE save_data([hs EXCEPT ![name] = r.habit], file, saveOk, "True")
    ELSE Result(hs, file, "False")

\* the for loop of complete_multiple_habits over habit_names: an exception
\* of complete_habit leaves the loop and the method, and no mapping is
\* returned
RECURSIVE complete_multiple_loop(_, _, _, _, _, _)
complete_multiple_loop(hs, file, habit_names, completion_time, saveOk, results) ==
    IF habit_names = << >>
    THEN [habits |-> hs, storage |-> file, ret |-> "dict", results |-> results]
    ELSE LET name == Head(habit_names)
             r    == complete_habit(hs, file, name, completion_time, saveOk)
         IN  IF r.ret \in {"ValueError", "StorageError"}
             THEN [habits |-> r.habits, storage |-> r.storage, ret |-> r.ret,
                   results |-> << >>]
             ELSE complete_multiple_loop(r.habits, r.storage,
                      Tail(habit_names), completion_time, saveOk,
                      [n \in DOMAIN results \cup {name} |->
                          IF n = name THEN r.ret = "True" ELSE results[n]])

\* HabitManager.complete_multiple_habits; saveOk is the outcome of every
\* write of the call
complete_multiple_habits(hs, file, habit_names, completion_time, saveOk) ==
    complete_multiple_loop(hs, file, habit_names, completion_time, saveOk,
                           [n \in {} |-> TRUE])

\* undo_completion that looks for a completion of the same day
undo_completion_ByDay(hs, file, name, completion_time, saveOk) ==
    IF /\ name \in DOMAIN hs
       /\ \E i \in 1..Len(hs[name].completion_history) :
             date(hs[name].completion_history[i]) = date(completion_time)
    THEN save_data([hs EXCEPT ![name].completion_history =
                        SelectSeq(@, LAMBDA c : date(c) # date(completion_time))],
                   file, saveOk, "True")
    ELSE Result(hs, file, "False")

\* HabitManager.undo_completion
undo_completion(hs, file, name, completion_time, saveOk) ==
    IF /\ name \in DOMAIN hs
       /\ contains(hs[name].completion_history, completion_time)
    THEN save_data([hs EXCEPT ![name].completion_history =
                        remove(@, completion_time)],
                   file, saveOk, "True")
    ELSE Result(hs, file, "False")

\* update_habit that starts the ledger afresh when the periodicity changes
update_habit_Revalidate(hs, file, name, kwargs, saveOk) ==
    IF name \notin DOMAIN hs
    THEN Result(hs, file, "False")
    ELSE LET h1 == IF "description" \in DOMAIN kwargs
                   THEN [hs[name] EXCEPT !.description = kwargs.description]
                   ELSE hs[name]
             h2 == IF "periodicity" \in DOMAIN kwargs
                      /\ kwargs.periodicity \in Periodicity
                      /\ kwargs.periodicity # h1.periodicity
                   THEN [h1 EXCEPT !.periodicity = kwargs.periodicity,
                                   !.completion_history = << >>]
                   ELSE h1
         IN  save_data([hs EXCEPT ![name] = h2], file, saveOk, "True")

\* HabitManager.update_habit
update_habit(hs, file, name, kwargs, saveOk) ==
    IF name \notin DOMAIN hs
    THEN Result(hs, file, "False")
    ELSE LET h1 == IF "description" \in DOMAIN kwargs
                   THEN [hs[name] EXCEPT !.description = kwargs.description]
                   ELSE hs[name]
             isStr  == "periodicity" \in DOMAIN kwargs
                          /\ kwargs.periodicity \notin Periodicity
             raises == isStr /\ kwargs.periodicity \notin PeriodicityValues
             h2 == IF "periodicity" \notin DOMAIN kwargs \/ raises THEN h1
                   ELSE IF isStr
                   THEN [h1 EXCEPT !.periodicity = PeriodicityOf(kwargs.periodicity)]
                   ELSE [h1 EXCEPT !.periodicity = kwargs.periodicity]
         IN  IF raises
             THEN Result([hs EXCEPT ![name] = h2], file, "ValueError")
             ELSE save_data([hs EXCEPT ![name] = h2], file, saveOk, "True")

\* HabitManager.restore_data from the store backup = [type, data] behind
\* backup_path.  Any exception is caught and gives False: the TypeError of
\* the SQLite handler, which is created with a file_path keyword it does
\* not take, and the StorageError of save_data
restore_data(hs, file, backup, saveOk) ==
    IF backup.type # "json"
    THEN Result(hs, file, "False")
    ELSE LET backup_habits == load_habits(backup.data)
             r == save_data(backup_habits, file, saveOk, "True")
         IN  IF r.ret = "StorageError"
             THEN Result(r.habits, r.storage, "False")
             ELSE r

\* HabitManager.load_data
load_data(hs, file) == Result(load_habits(file), file, "None")

-----------------------------------------------------------------------------
(* The manager opened on a file that holds one freshly created habit, and  *)
(* the calls made on it.                                                   *)

\* the manager after a call that ended as r
Call(r) ==
    /\ habits' = r.habits
    /\ storage' = r.storage

WithinBounds(r) ==
    \A n \in DOMAIN r.habits : Len(r.habits[n].completion_history) <= MaxHist

Init ==
    /\ storage \in { save_habits("Exercise" :>
                        Habit("Exercise", "Daily workout", p, c)) :
                     p \in Periodicity, c \in CreationTimes }
    /\ habits = load_habits(storage)

CompleteHabit ==
    \E name \in Names, t \in Times, saveOk \in SaveOutcomes :
        LET r == complete_habit(habits, storage, name, t, saveOk)
        IN  WithinBounds(r) /\ Call(r)

UndoCompletion ==
    \E name \in Names, t \in Times, saveOk \in SaveOutcomes :
        Call(undo_completion(habits, storage, name, t, saveOk))

UpdateHabit ==
    \E name \in Names, kwargs \in KwargsSet, saveOk \in SaveOutcomes :
        Call(update_habit(habits, storage, name, kwargs, saveOk))

LoadData == Call(load_data(habits, storage))

Next == CompleteHabit \/ UndoCompletion \/ UpdateHabit \/ LoadData

Spec == Init /\ [][Next]_vars

TypeOK ==
    /\ DOMAIN habits \subseteq Names
    /\ \A n \in DOMAIN habits :
          /\ habits[n].periodicity \in Periodicity
          /\ Len(habits[n].completion_history) <= MaxHist

-----------------------------------------------------------------------------
(* Specifications of the ledger alone: only check-offs, and check-offs     *)
(* with undos; the periodicity stays what it was at construction.          *)

NextCheckOff == CompleteHabit

SpecCheckOff == Init /\ [][NextCheckOff]_vars

NextLedger == CompleteHabit \/ UndoCompletion

SpecLedger == Init /\ [][NextLedger]_vars

-----------------------------------------------------------------------------
(* The first check-off of the habit, at any time of the calendar: the      *)
(* timestamps the period functions are applied to.                         *)

FirstCheckOff ==
    \E t \in CalendarTimes, saveOk \in SaveOutcomes :
        /\ habits["Exercise"].completion_history = << >>
        /\ Call(complete_habit(habits, storage, "Exercise", t, saveOk))

NextPeriod == FirstCheckOff

SpecPeriod == Init /\ [][NextPeriod]_vars

-----------------------------------------------------------------------------
(* A manager opened where no file exists yet, and every mutation of the    *)
(* collection made on it.                                                  *)

\* the 'habits' object read when the file does not exist
NoFile == [n \in {} |-> n]

InitMgr ==
    /\ storage = NoFile
    /\ habits = load_habits(storage)

MgrCreateHabit ==
    \E name \in MgrNames, description \in CreateDescriptions,
       periodicity \in Periodicity, now \in MgrTimes, saveOk \in SaveOutcomes :
        Call(create_habit(habits, storage, name, description, periodicity,
                          now, saveOk))

MgrDeleteHabit ==
    \E name \in MgrNames, saveOk \in SaveOutcomes :
        Call(delete_habit(habits, storage, name, saveOk))

MgrUpdateHabit ==
    \E name \in MgrNames, kwargs \in KwargsSet, saveOk \in SaveOutcomes :
        Call(update_habit(habits, storage, name, kwargs, saveOk))

MgrCompleteHabit ==
    \E name \in MgrNames, t \in MgrTimes, saveOk \in SaveOutcomes :
        LET r == complete_habit(habits, storage, name, t, saveOk)
        IN  WithinBounds(r) /\ Call(r)

MgrUndoCompletion ==
    \E name \in MgrNames, t \in MgrTimes, saveOk \in SaveOutcomes :
        Call(undo_completion(habits, storage, name, t, saveOk))

NextMgr ==
    \/ MgrCreateHabit
    \/ MgrDeleteHabit
    \/ MgrUpdateHabit
    \/ MgrCompleteHabit
    \/ MgrUndoCompletion

SpecMgr == InitMgr /\ [][NextMgr]_vars

-----------------------------------------------------------------------------
(* The same manager in a session in which every call returns normally: a   *)
(* value is returned, no exception leaves the method.                      *)

Normal(r) == r.ret \notin {"ValueError", "StorageError"}

NormalCreateHabit ==
    \E name \in MgrNames, description \in CreateDescriptions,
       periodicity \in Periodicity, now \in MgrTimes, saveOk \in SaveOutcomes :
        LET r == create_habit(habits, storage, name, description, periodicity,
                              now, saveOk)
        IN  Normal(r) /\ Call(r)

NormalDeleteHabit ==
    \E name \in MgrNames, saveOk \in SaveOutcomes :
        LET r == delete_habit(habits, storage, name, saveOk)
        IN  Normal(r) /\ Call(r)

NormalUpdateHabit ==
    \E name \in MgrNames, kwargs \in KwargsSet, saveOk \in SaveOutcomes :
        LET r == update_habit(habits, storage, name, kwargs, saveOk)
        IN  Normal(r) /\ Call(r)

NormalCompleteHabit ==
    \E name \in MgrNames, t \in MgrTimes, saveOk \in SaveOutcomes :
        LET r == complete_habit(habits, storage, name, t, saveOk)
        IN  Normal(r) /\ WithinBounds(r) /\ Call(r)

NormalUndoCompletion ==
    \E name \in MgrNames, t \in MgrTimes, saveOk \in SaveOutcomes :
        LET r == undo_completion(habits, storage, name, t, saveOk)
        IN  Normal(r) /\ Call(r)

NextNormal ==
    \/ NormalCreateHabit
    \/ NormalDeleteHabit
    \/ NormalUpdateHabit
    \/ NormalCompleteHabit
    \/ NormalUndoCompletion

SpecNormal == InitMgr /\ [][NextNormal]_vars

-----------------------------------------------------------------------------
(* A storage handler opened on a store that was written elsewhere: a JSON  *)
(* file or an SQLite database whose records may be malformed.  Here        *)
(* storage is the store [type, data] and habits what the caller holds: no  *)
(* habits before the load and after a load that raised.  (A HabitManager   *)
(* is built on a JSON file only: StorageFactory hands the SQLite handler a *)
(* file_path keyword it does not take.)                                    *)

StoreNames == {"Exercise", "Invalid"}

\* a timestamp string that spells no datetime: '2024-13-01T00:00:00'
InvalidDate == <<2024, 13, 1, 0>>

\* habits that were saved well-formed
StoredHabits(name) ==
    { [ Habit(name, "Workout", p, datetime(2024, 1, 1, 0))
        EXCEPT !.completion_history = hist ] :
          p \in {"DAILY", "WEEKLY"},
          hist \in { << >>, << datetime(2024, 1, 2, 0) >> } }

\* records of a JSON file: as saved, with a field missing, with an unknown
\* periodicity tag, with an unparseable timestamp
JSONRecords(name) ==
    LET good == to_dict([ Habit(name, "Workout", "DAILY", datetime(2024, 1, 1, 0))
                          EXCEPT !.completion_history =
                              << datetime(2024, 1, 2, 0) >> ])
    IN  { to_dict(h) : h \in StoredHabits(name) }
        \cup { [k \in HabitKeys \ {missing} |-> good[k]] :
                   missing \in {"description", "completion_history"} }
        \cup { [good EXCEPT !.periodicity = "invalid_periodicity"],
               [good EXCEPT !.creation_date = InvalidDate],
               [good EXCEPT !.completion_history = <<InvalidDate>>] }

\* rows of a database: as saved, with an unknown periodicity tag, with an
\* unparseable timestamp (the columns are NOT NULL)
SQLiteRows(name) ==
    LET good == sqlite_save_habits(name :>
                    [ Habit(name, "Workout", "DAILY", datetime(2024, 1, 1, 0))
                      EXCEPT !.completion_history =
                          << datetime(2024, 1, 2, 0) >> ]).db[name]
    IN  { sqlite_save_habits(name :> h).db[name] : h \in StoredHabits(name) }
        \cup { [good EXCEPT !.periodicity = "invalid_periodicity"],
               [good EXCEPT !.creation_date = InvalidDate],
               [good EXCEPT !.completions = <<InvalidDate>>] }

\* the collections over the names, each name absent or with a record of
\* the set R[name]
Collections(R) ==
    UNION { { f \in [S -> UNION {R[n] : n \in S}] :
                \A n \in S : f[n] \in R[n] } : S \in SUBSET StoreNames }

Stores ==
    { [type |-> "json", data |-> d] :
        d \in Collections([n \in StoreNames |-> JSONRecords(n)]) }
    \cup { [type |-> "sqlite", data |-> d] :
        d \in Collections([n \in StoreNames |-> SQLiteRows(n)]) }

\* the handler is created, nothing is loaded yet
InitStore ==
    /\ storage \in Stores
    /\ habits = [n \in {} |-> n]

\* load_habits called as HabitManager.load_data calls it: a StorageError is
\* caught and leaves no habits
handler_load_data(store) ==
    LET r == handler_load_habits(store)
    IN  IF r.raised THEN [n \in {} |-> n] ELSE r.habits

LoadJSON ==
    /\ storage.type = "json"
    /\ habits' = handler_load_data(storage)
    /\ UNCHANGED storage

LoadSQLite ==
    /\ storage.type = "sqlite"
    /\ habits' = handler_load_data(storage)
    /\ UNCHANGED storage

NextStore == LoadJSON \/ LoadSQLite

SpecStore == InitStore /\ [][NextStore]_vars

-----------------------------------------------------------------------------
(* A manager, opened where no file exists yet, whose writes may fail, and  *)
(* the backups it may be restored from.                                    *)

\* outcomes of the write of save_habits: TRUE written, FALSE StorageError
WriteOutcomes == BOOLEAN

\* the backups: JSON files and databases that hold at most the habit
\* 'Exercise', well-formed or not
Backups == { s \in Stores : DOMAIN s.data \subseteq {"Exercise"} }

IOCreateHabit ==
    \E periodicity \in Periodicity, now \in MgrTimes, saveOk \in WriteOutcomes :
        Call(create_habit(habits, storage, "Exercise", "Another workout",
                          periodicity, now, saveOk))

IODeleteHabit ==
    \E name \in Names, saveOk \in WriteOutcomes :
        Call(delete_habit(habits, storage, name, saveOk))

IOUpdateHabit ==
    \E name \in Names, kwargs \in KwargsSet, saveOk \in WriteOutcomes :
        Call(update_habit(habits, storage, name, kwargs, saveOk))

IOCompleteHabit ==
    \E name \in Names, t \in MgrTimes, saveOk \in WriteOutcomes :
        LET r == complete_habit(habits, storage, name, t, saveOk)
        IN  WithinBounds(r) /\ Call(r)

IOUndoCompletion ==
    \E name \in Names, t \in MgrTimes, saveOk \in WriteOutcomes :
        Call(undo_completion(habits, storage, name, t, saveOk))

IORestoreData ==
    \E backup \in Backups, saveOk \in WriteOutcomes :
        Call(restore_data(habits, storage, backup, saveOk))

\* lists of names handed to complete_multiple_habits
NameLists ==
    { << >>, <<"Exercise">>, <<"Exercise", "NonExistent">>,
      <<"NonExistent", "Exercise">> }

IOCompleteMultipleHabits ==
    \E habit_names \in NameLists, t \in MgrTimes, saveOk \in WriteOutcomes :
        LET r == complete_multiple_habits(habits, storage, habit_names, t, saveOk)
        IN  WithinBounds(r) /\ Call(r)

NextIO ==
    \/ IOCompleteMultipleHabits
    \/ IOCreateHabit
    \/ IODeleteHabit
    \/ IOUpdateHabit
    \/ IOCompleteHabit
    \/ IOUndoCompletion
    \/ IORestoreData

SpecIO == InitMgr /\ [][NextIO]_vars

-----------------------------------------------------------------------------
(* Vocabulary of the properties.                                           *)

\* number of occurrences of x in a list
Count(seq, x) == Cardinality({i \in 1..Len(seq) : seq[i] = x})

IsSortedAscending(seq) == \A i \in 1..(Len(seq) - 1) : seq[i] <= seq[i + 1]

\* the number of the period a timestamp lies in: consecutive periods have
\* consecutive numbers
PeriodIndex(p, t) ==
    CASE p = "DAILY"   -> toordinal(t)
      [] p = "WEEKLY"  -> (toordinal(t) - 1) \div 7
      [] p = "MONTHLY" -> LET ymd == ord2ymd(toordinal(t))
                          IN  ymd[1] * 12 + ymd[2]
      [] p = "YEARLY"  -> year(t)

\* the numbers of the periods that hold a completion
CompletedPeriods(h) ==
    { PeriodIndex(h.periodicity, h.completion_history[i]) :
        i \in 1..Len(h.completion_history) }

\* the k periods ending with period number idx are all in the set done
RunEndingAt(done, idx, k) == \A i \in 0..(k - 1) : (idx - i) \in done

MaxOf(S) == CHOOSE x \in S : \A y \in S : y <= x

\* the timestamps a habit holds
TimesOf(h) ==
    {h.creation_date}
        \cup {h.completion_history[i] : i \in 1..Len(h.completion_history)}

\* seq without its i-th entry
Without(seq, i) == SubSeq(seq, 1, i - 1) \o SubSeq(seq, i + 1, Len(seq))

-----------------------------------------------------------------------------
(* Properties.                                                             *)

\* C1: for every periodicity and timestamp t, a check_off(t) rejected as a
\* duplicate raises ValueError and leaves completion_history exactly as it
\* was; an accepted check_off(t) adds exactly the one entry t (length +1)
\* and loses no entry.
C1_CheckOffEffect ==
    \A n \in DOMAIN habits, t \in Times :
        LET h   == habits[n]
            old == h.completion_history
            r   == check_off(h, t)
            new == r.habit.completion_history
        IN  /\ r.raised => new = old
            /\ ~ r.raised =>
                  /\ Len(new) = Len(old) + 1
                  /\ \A x \in Times :
                        Count(new, x) = Count(old, x) + (IF x = t THEN 1 ELSE 0)

\* check-offs have built a ledger of two entries on which check_off
\* rejects one timestamp and accepts another
C1_Witness ==
    \E n \in DOMAIN habits, t1, t2 \in Times :
        /\ Len(habits[n].completion_history) = 2
        /\ check_off(habits[n], t1).raised
        /\ ~ check_off(habits[n], t2).raised

\* C2: after any sequence of check_off calls, in any order, on a habit whose
\* periodicity never changes, no two entries of completion_history fall in
\* the same period.
C2_OnePerPeriod ==
    \A n \in DOMAIN habits :
        LET h == habits[n]
        IN  \A i, j \in 1..Len(h.completion_history) :
                i # j => _get_period_start(h, h.completion_history[i])
                           # _get_period_start(h, h.completion_history[j])

\* C3: in every state reached by check_off (in any chronological order),
\* undo_completion and update_habit, and after from_dict(to_dict(h)),
\* completion_history is sorted ascending.
C3_SortedAscending ==
    \A n \in DOMAIN habits :
        /\ IsSortedAscending(habits[n].completion_history)
        /\ IsSortedAscending(from_dict(to_dict(habits[n])).completion_history)

\* a ledger of three entries that holds one timestamp twice: check_off
\* accepted it the second time when a later timestamp was already there
C3_Witness ==
    \E n \in DOMAIN habits :
        /\ Len(habits[n].completion_history) = 3
        /\ \E i \in 1..2 :
              habits[n].completion_history[i] = habits[n].completion_history[i + 1]

C5_LongestRun ==
    \A n \in DOMAIN habits :
        LET h    == habits[n]
            done == CompletedPeriods(h)
            run  == MaxOf({k \in 0..Len(h.completion_history) :
                             k = 0 \/ \E idx \in done : RunEndingAt(done, idx, k)})
        IN  \A now \in Times : calculate_longest_streak(h, now) = run

\* C6: for any sequence of check-offs and any evaluation time now,
\* calculate_longest_streak() >= calculate_current_streak() at that now.
C6_LongestAtLeastCurrent ==
    \A n \in DOMAIN habits, now \in Times :
        calculate_longest_streak(habits[n], now)
            >= calculate_current_streak(habits[n], now)

\* at one time the current streak is at least 1 and the longest is longer
C6_Witness ==
    \E n \in DOMAIN habits, now \in Times :
        /\ calculate_current_streak(habits[n], now) >= 1
        /\ calculate_longest_streak(habits[n], now)
              > calculate_current_streak(habits[n], now)

C9_RoundTrip ==
    \A n \in DOMAIN habits :
        LET h == habits[n]
            d == to_dict(h)
        IN  /\ ~ from_dict_raises(d)
            /\ from_dict(d).name = h.name
            /\ from_dict(d).description = h.description
            /\ from_dict(d).periodicity = h.periodicity
            /\ from_dict(d).creation_date = h.creation_date
            /\ from_dict(d).completion_history = h.completion_history

\* a saved habit with an updated description and two completions, one of
\* them not at midnight
C9_Witness ==
    /\ \E n \in DOMAIN habits :
          LET h == habits[n]
          IN  /\ Len(h.completion_history) >= 2
              /\ \E i \in 1..Len(h.completion_history) :
                    slot(h.completion_history[i]) # 0
              /\ h.description = "Workout"
              /\ storage[n] = to_dict(h)

\* C10: whenever undo_completion(name, t) returns True, the habit's
\* completion_history afterwards no longer contains t, has exactly one
\* entry fewer, and keeps all other entries in their previous order.
C10_UndoRemoves ==
    \A name \in Names, t \in Times, saveOk \in SaveOutcomes :
        LET r == undo_completion(habits, storage, name, t, saveOk)
        IN  r.ret = "True" =>
                LET old == habits[name].completion_history
                    new == r.habits[name].completion_history
                IN  /\ ~ contains(new, t)
                    /\ Len(new) = Len(old) - 1
                    /\ \E i \in 1..Len(old) : old[i] = t /\ new = Without(old, i)

-----------------------------------------------------------------------------
\* C11: create_habit with a name already in the collection raises
\* ValueError and leaves the collection (the existing habit's description,
\* periodicity, creation date and ledger, and every other habit) and the
\* file as they were; so after any sequence of create_habit, delete_habit,
\* update_habit, complete_habit and undo_completion every key of the
\* collection is the name of the one habit stored under it.
C11_DuplicateCreate ==
    /\ \A n \in DOMAIN habits : habits[n].name = n
    /\ \A name \in DOMAIN habits, description \in CreateDescriptions,
          periodicity \in Periodicity, now \in MgrTimes,
          saveOk \in SaveOutcomes :
            LET r == create_habit(habits, storage, name, description,
                                  periodicity, now, saveOk)
            IN  /\ r.ret = "ValueError"
                /\ r.habits = habits
                /\ r.storage = storage

\* both names are taken, one habit has a ledger, and the file is behind the
\* collection (a save would show): a create_habit of either name is refused
C11_Witness ==
    /\ DOMAIN habits = MgrNames
    /\ habits["Exercise"].completion_history # << >>
    /\ habits["Read"].periodicity = "WEEKLY"
    /\ storage # save_habits(habits)

-----------------------------------------------------------------------------
\* C12: update_habit, whatever description and periodicity it is given and
\* whether it returns or raises, keeps the habit under its name with the
\* same name, creation_date and completion_history: no completion is
\* removed, reordered or checked again under the new periodicity.
C12_UpdateFrame ==
    \A name \in DOMAIN habits, kwargs \in KwargsSet, saveOk \in SaveOutcomes :
        LET r == update_habit(habits, storage, name, kwargs, saveOk)
        IN  /\ DOMAIN r.habits = DOMAIN habits
            /\ r.habits[name].name = habits[name].name
            /\ r.habits[name].creation_date = habits[name].creation_date
            /\ r.habits[name].completion_history =
                   habits[name].completion_history

\* an updated habit (the description is one only update_habit gives) that
\* is weekly and still holds two completions of one week
C12_Witness ==
    /\ "Exercise" \in DOMAIN habits
    /\ habits["Exercise"].description \in Descriptions
    /\ habits["Exercise"].periodicity = "WEEKLY"
    /\ habits["Exercise"].completion_history =
           << datetime(2023, 12, 25, 0), datetime(2023, 12, 31, 0) >>

-----------------------------------------------------------------------------
\* C13: load_habits of either storage handler, on a stored collection with
\* a malformed record (a missing field, an unparseable timestamp, an
\* unknown periodicity tag), does not raise and returns every well-formed
\* record of the collection.
C13_MalformedSkipped ==
    LET r == handler_load_habits(storage)
    IN  /\ ~ r.raised
        /\ \A n \in DOMAIN storage.data :
              IF storage.type = "json"
              THEN ~ from_dict_raises(storage.data[n])
                      => /\ n \in DOMAIN r.habits
                         /\ r.habits[n] = from_dict(storage.data[n])
              ELSE ~ sqlite_row_raises(storage.data[n])
                      => /\ n \in DOMAIN r.habits
                         /\ r.habits[n] = sqlite_row_habit(storage.data[n])

-----------------------------------------------------------------------------
\* C19: Habit.from_dict of a record that has name, description, periodicity
\* and creation_date but no completion_history key does not raise and
\* gives a habit with an empty completion_history.
C19_MissingHistory ==
    storage.type = "json" =>
        \A n \in DOMAIN storage.data :
            LET data == storage.data[n]
            IN  DOMAIN data = HabitKeys \ {"completion_history"}
                    => /\ ~ from_dict_raises(data)
                       /\ from_dict(data).completion_history = << >>

-----------------------------------------------------------------------------
\* C14: after any sequence of create_habit, complete_habit,
\* undo_completion, update_habit and delete_habit calls that all return
\* normally, what a new HabitManager loads from the same file is the first
\* manager's collection: the same names and, per habit, the same
\* description, periodicity, creation date and completion list.
C14_ReloadEqual == load_data(NoFile, storage).habits = habits

\* two habits, one updated after its creation and one with two
\* completions, have been saved
C14_Witness ==
    /\ DOMAIN habits = MgrNames
    /\ Len(habits["Exercise"].completion_history) = 2
    /\ habits["Read"].description = "Workout"
    /\ habits["Read"].periodicity = "YEARLY"
    /\ habits["Read"].creation_date = datetime(2024, 1, 2, 0)

-----------------------------------------------------------------------------
\* C15: for every timestamp t and every periodicity, _get_period_start is
\* idempotent: the period start of the period start of t is the period
\* start of t.
C15_Idempotent ==
    \A n \in DOMAIN habits : \A t \in TimesOf(habits[n]) :
        LET p == _get_period_start(habits[n], t)
        IN  _get_period_start(habits[n], p) = p

\* a weekly habit checked off late on Wednesday 2020-01-01: its week
\* started in the year before
C15_Witness ==
    /\ habits["Exercise"].periodicity = "WEEKLY"
    /\ habits["Exercise"].completion_history = << datetime(2020, 1, 1, 1) >>
    /\ _get_period_start(habits["Exercise"], datetime(2020, 1, 1, 1))
          = datetime(2019, 12, 30, 0)

-----------------------------------------------------------------------------
\* C16: for every timestamp t and every periodicity, the previous period
\* start of the period start of t is strictly earlier than the period
\* start of t: from January to December of the year before, from the first
\* week and day of a year to the year before, and from Mar 1 to Feb 1 of a
\* leap year.
C16_PreviousEarlier ==
    \A n \in DOMAIN habits : \A t \in TimesOf(habits[n]) :
        LET p == _get_period_start(habits[n], t)
        IN  _get_previous_period_start(habits[n], p) < p

\* a monthly habit checked off in January: the previous period is December
\* of the year before
C16_Witness ==
    /\ habits["Exercise"].periodicity = "MONTHLY"
    /\ habits["Exercise"].completion_history = << datetime(2020, 1, 15, 0) >>
    /\ _get_previous_period_start(habits["Exercise"], datetime(2020, 1, 1, 0))
          = datetime(2019, 12, 1, 0)

-----------------------------------------------------------------------------
\* C17: for every periodicity, _get_period_start is monotonic, t1 <= t2
\* implies period_start(t1) <= period_start(t2), and never later than its
\* argument, period_start(t) <= t.
C17_Monotonic ==
    \A n \in DOMAIN habits : \A t1 \in TimesOf(habits[n]) :
        LET p1 == _get_period_start(habits[n], t1)
        IN  /\ p1 <= t1
            /\ \A t2 \in CalendarTimes :
                  /\ t1 <= t2 => p1 <= _get_period_start(habits[n], t2)
                  /\ t2 <= t1 => _get_period_start(habits[n], t2) <= p1

\* a yearly habit checked off on the last day of January 2020; later
\* timestamps of the calendar lie in the same year
C17_Witness ==
    /\ habits["Exercise"].periodicity = "YEARLY"
    /\ habits["Exercise"].completion_history = << datetime(2020, 1, 31, 1) >>

-----------------------------------------------------------------------------
\* C18: for a habit whose only completion is a future check-off in the
\* period right after the period of now, calculate_current_streak at now
\* returns 1.
C18_FutureCheckOff ==
    \A n \in DOMAIN habits, now \in Times :
        LET h == habits[n]
        IN  ( /\ Len(h.completion_history) = 1
              /\ PeriodIndex(h.periodicity, h.completion_history[1])
                    = PeriodIndex(h.periodicity, now) + 1 )
                => calculate_current_streak(h, now) = 1

-----------------------------------------------------------------------------
\* C20: for every habit whose ledger was built through check_off, of any
\* of the four periodicities, and every look-back window of days >= 1,
\* get_completion_rate(habit, days) is a percentage from 0 to 100.
C20_RateInRange ==
    \A n \in DOMAIN habits, days \in LookBackDays, now \in Times :
        LET rate == get_completion_rate(habits[n], days, now)
        IN  /\ 0 <= rate.num
            /\ rate.num <= 100 * rate.den

-----------------------------------------------------------------------------
\* C21: whenever restore_data returns False, the collection in memory and
\* the persisted data are what they were before the call; whenever it
\* returns True, the collection in memory is the habits loaded from the
\* backup and has been saved.
C21_RestoreOutcome ==
    \A backup \in Backups, saveOk \in WriteOutcomes :
        LET r == restore_data(habits, storage, backup, saveOk)
        IN  /\ r.ret = "False" => r.habits = habits /\ r.storage = storage
            /\ r.ret = "True" =>
                  /\ r.habits = load_habits(backup.data)
                  /\ r.storage = save_habits(r.habits)

-----------------------------------------------------------------------------
\* C22: complete_habit, delete_habit and update_habit on a name that is
\* not in the manager, and undo_completion on an unknown name or on a
\* timestamp that is not in the habit's ledger (compared exactly), return
\* False without raising, leave every habit unchanged and save nothing.
C22_NotFound ==
    \A name \in Names, saveOk \in WriteOutcomes :
        /\ name \notin DOMAIN habits =>
              /\ \A t \in Times :
                    complete_habit(habits, storage, name, t, saveOk)
                        = Result(habits, storage, "False")
              /\ delete_habit(habits, storage, name, saveOk)
                    = Result(habits, storage, "False")
              /\ \A kwargs \in KwargsSet :
                    update_habit(habits, storage, name, kwargs, saveOk)
                        = Result(habits, storage, "False")
        /\ \A t \in Times \cup MgrTimes :
              ( \/ name \notin DOMAIN habits
                \/ ~ contains(habits[name].completion_history, t) )
                  => undo_completion(habits, storage, name, t, saveOk)
                        = Result(habits, storage, "False")

\* the habit holds the completion of 2024-01-01 00:00, not the one of later
\* that day, and the file is behind the collection (a save would show)
C22_Witness ==
    /\ DOMAIN habits = {"Exercise"}
    /\ habits["Exercise"].completion_history = << datetime(2024, 1, 1, 0) >>
    /\ storage # save_habits(habits)

-----------------------------------------------------------------------------
\* C23: complete_multiple_habits(names, t) returns, for any prior state of
\* the habits, a mapping with one entry for every requested name: True for
\* each name that is in the manager and False for each name that is not.
C23_MultipleResults ==
    \A habit_names \in NameLists, t \in MgrTimes :
        LET r == complete_multiple_habits(habits, storage, habit_names, t, TRUE)
        IN  /\ r.ret = "dict"
            /\ DOMAIN r.results =
                  {habit_names[i] : i \in 1..Len(habit_names)}
            /\ \A n \in DOMAIN r.results :
                  r.results[n] = (n \in DOMAIN habits)

-----------------------------------------------------------------------------
\* C30: if saving raises StorageError during create_habit, complete_habit,
\* undo_completion, update_habit or delete_habit, the collection in memory
\* is left as it was before the call.
C30_SaveFailureAtomic ==
    \A name \in Names :
        /\ \A periodicity \in Periodicity, now \in MgrTimes :
              LET r == create_habit(habits, storage, name, "Another workout",
                                    periodicity, now, FALSE)
              IN  r.ret = "StorageError" => r.habits = habits
        /\ \A t \in MgrTimes :
              LET r == complete_habit(habits, storage, name, t, FALSE)
              IN  r.ret = "StorageError" => r.habits = habits
        /\ \A t \in MgrTimes :
              LET r == undo_completion(habits, storage, name, t, FALSE)
              IN  r.ret = "StorageError" => r.habits = habits
        /\ \A kwargs \in KwargsSet :
              LET r == update_habit(habits, storage, name, kwargs, FALSE)
              IN  r.ret = "StorageError" => r.habits = habits
        /\ LET r == delete_habit(habits, storage, name, FALSE)
           IN  r.ret = "StorageError" => r.habits = habits

-----------------------------------------------------------------------------
-----------------------------------------------------------------------------
\* C25: during the walk of calculate_current_streak from the most recent to
\* the oldest completion, for any ledger reachable through check_off and
\* any now, no completion is examined whose period start is later than the
\* expected period: every examined completion matches it or ends the walk.
C25_NoLaterExamined ==
    \A n \in DOMAIN habits, now \in Times :
        ~ current_streak_skips(habits[n],
                               sorted_reverse(habits[n].completion_history),
                               _get_period_start(habits[n], now))

-----------------------------------------------------------------------------
\* C26: for any habit reached through check_off and undo_completion and
\* any timestamp t that check_off accepts, check_off(t) followed by
\* undo_completion(t) leaves completion_history as it was before the
\* check_off: the same entries in the same order.
C26_CheckOffUndo ==
    \A n \in DOMAIN habits, t \in Times :
        LET done == complete_habit(habits, storage, n, t, TRUE)
        IN  done.ret = "True" =>
                LET undone == undo_completion(done.habits, done.storage, n, t, TRUE)
                IN  /\ undone.ret = "True"
                    /\ undone.habits[n].completion_history
                          = habits[n].completion_history

\* a ledger of two completions in which check_off accepts a timestamp that
\* is already there: the undo then has two equal entries to choose from
C26_Witness ==
    /\ Len(habits["Exercise"].completion_history) = 2
    /\ \E t \in Times :
          /\ contains(habits["Exercise"].completion_history, t)
          /\ ~ check_off(habits["Exercise"], t).raised

-----------------------------------------------------------------------------
\* C27: a broken habit can always be repaired: whenever is_broken(now) is
\* true, with or without earlier completions, check_off(now) is accepted,
\* and right afterwards is_broken(now) is false and
\* calculate_current_streak at now is at least 1.
C27_Repair ==
    \A n \in DOMAIN habits, now \in Times :
        is_broken(habits[n], now) =>
            LET r == check_off(habits[n], now)
            IN  /\ ~ r.raised
                /\ ~ is_broken(r.habit, now)
                /\ calculate_current_streak(r.habit, now) >= 1

\* a weekly habit last completed on 2023-12-25 is broken on 2024-01-08,
\* two weeks later
C27_Witness ==
    /\ habits["Exercise"].periodicity = "WEEKLY"
    /\ habits["Exercise"].completion_history = << datetime(2023, 12, 25, 0) >>
    /\ is_broken(habits["Exercise"], datetime(2024, 1, 8, 0))

-----------------------------------------------------------------------------
\* C28: recording a completion never breaks a habit: if is_broken(now) is
\* false before an accepted check_off(t), it is false afterwards, for any
\* t.
C28_CompletionNeverBreaks ==
    \A n \in DOMAIN habits, now \in Times, t \in Times :
        LET r == check_off(habits[n], t)
        IN  (~ is_broken(habits[n], now) /\ ~ r.raised) =>
                ~ is_broken(r.habit, now)

-----------------------------------------------------------------------------
====
